---- MODULE Spec2Model ----
(***************************************************************************)
(* CSSTree<NodeSize, K> (include/csstree.hpp): a static multiway search    *)
(* tree stored implicitly.  The model follows the constructor and find()   *)
(* line by line.  Indices are 0-based as in the source; the sequences      *)
(* leaves and tree are TLA+ sequences, read through LeafAt and SlotAt.     *)
(*                                                                         *)
(* Arithmetic.  size_t is modelled SizeBits wide (the source's is 64 bits  *)
(* wide, beyond the model checker's integers).  Every value the code       *)
(* computes from an input within the bounds is far below 2^SizeBits, so    *)
(* wrap-around happens only where it happens in the source: on the empty   *)
(* input, and when a negative long is converted to size_t.                 *)
(*                                                                         *)
(* Floating point.  The constructor computes the height with               *)
(* ceil(log(x) / log(b)) in double.  For x an exact power b^e the double   *)
(* quotient may lie just above e, and ceil then yields e + 1.  LogRoundsUp *)
(* lists the pairs where IEEE-754 double evaluation does so (none other    *)
(* exists for b < 41, x < 3000).                                           *)
(*                                                                         *)
(* Undefined behaviour is a nondeterministic choice:                       *)
(*  - size_t(d) for a double d outside size_t's range (the empty input):   *)
(*    the result of the conversion instruction, per FpConventions;         *)
(*  - a read of leaves[i] with i >= size(): the read faults, or yields an  *)
(*    arbitrary value;                                                     *)
(*  - std::lower_bound over a range that is not partitioned by the key:    *)
(*    any position of the range;                                           *)
(*  - assert(diff >= 0): aborts, or is compiled out (NDEBUG).              *)
(***************************************************************************)
EXTENDS Integers, Sequences, FiniteSets, TLC

VARIABLES
    pc,               \* "start", "built", "failed", "descend", "scan",
                      \* "returned", "aborted", "fault"
    data,             \* the constructor's argument
    node_size,        \* template parameter NodeSize, in bytes
    key_size,         \* sizeof(K)
    slots_per_node,   \* member slots_per_node
    leaves,           \* member leaves
    tree,             \* member tree
    tree_height,      \* member tree_height
    half_marker,      \* member half_marker
    n_internal_nodes, \* member n_internal_nodes
    error,            \* the exception the constructor ended in, "" if none
    key,              \* find: the key searched for
    child,            \* find: local child
    diff,             \* find: local diff, after the wrap-around step
    lo,               \* find: index of iterator lo into leaves
    hi,               \* find: index of iterator hi into leaves
    result,           \* find: index of the iterator returned, -1 before
    reads             \* find: indices of leaves dereferenced so far

vars == <<pc, data, node_size, key_size, slots_per_node, leaves, tree,
          tree_height, half_marker, n_internal_nodes, error,
          key, child, diff, lo, hi, result, reads>>

treeVars == <<data, node_size, key_size, slots_per_node, leaves, tree,
              tree_height, half_marker, n_internal_nodes, error>>

-----------------------------------------------------------------------------
(* Bounds of the model *)

MaxLen == 7
MaxKey == 3
MaxFanout == 4
LargeLen == 497

(* Program constants *)

ScanLimit == 256
SizeBits == 24

SizeMod == 2 ^ SizeBits

Keys == 1 .. MaxKey
SearchKeys == 0 .. (MaxKey + 1)

\* sizeof(K): one byte (int8_t), two bytes (int16_t), and a key type wide
\* enough that every NodeSize >= sizeof(K) selects the binary search
KeySizes == {1, 2, ScanLimit + 1}

\* <<NodeSize, sizeof(K)>>: NodeSize a multiple of sizeof(K), and the largest
\* NodeSize with the same quotient
Configs ==
    UNION {{<<sz * s, sz>>, <<sz * s + (sz - 1), sz>>} :
           s \in 1 .. MaxFanout, sz \in KeySizes}

SmallData == UNION {[1 .. n -> Keys] : n \in 0 .. MaxLen}

\* 1, 1, 2, 3, ..., LargeLen - 1
LargeData == [i \in 1 .. LargeLen |-> IF i = 1 THEN 1 ELSE i - 1]

LargeInputs == {LargeData}

FpConventions == {"indefinite", "saturating"}

-----------------------------------------------------------------------------
(* Arithmetic helpers *)

Min(a, b) == IF a < b THEN a ELSE b

SizeT(x) == x % SizeMod

RECURSIVE Pow(_, _)
Pow(b, e) == IF e = 0 THEN 1 ELSE b * Pow(b, e - 1)

\* size_t(-inf): cvttsd2si yields the "integer indefinite" 0x80..0;
\* a saturating conversion (fcvtzu) yields 0
SizeTOfNegInf(conv) == IF conv = "indefinite" THEN SizeMod \div 2 ELSE 0

\* size_t(+inf): the compare-subtract-xor sequence around cvttsd2si yields 0;
\* a saturating conversion yields SIZE_MAX
SizeTOfPosInf(conv) == IF conv = "indefinite" THEN 0 ELSE SizeMod - 1

\* pairs <<x, b>> with log(x) / log(b) > log_b(x) in double arithmetic
LogRoundsUp == {<<125, 5>>, <<216, 6>>}

RECURSIVE LogUp(_, _, _)
LogUp(x, b, h) == IF Pow(b, h) >= x THEN h ELSE LogUp(x, b, h + 1)

\* size_t(ceil(log(x) / log(b))) for x >= 1
CeilLogRatio(x, b) ==
    LogUp(x, b, 0) + (IF <<x, b>> \in LogRoundsUp THEN 1 ELSE 0)

-----------------------------------------------------------------------------
(* The constructor *)

\* std::is_sorted: no element is less than its predecessor
IsSortedStrict(d) == \A i \in 1 .. (Len(d) - 1) : d[i] < d[i + 1]

IsSorted(d) == \A i \in 1 .. (Len(d) - 1) : ~(d[i + 1] < d[i])

LeafNodesFloorPlusOne(n, s) == n \div s + 1

\* ceil(n / double(slots_per_node))
LeafNodes(n, s) == (n + s - 1) \div s

TreeHeight(n, s, conv) ==
    IF LeafNodes(n, s) = 0
    THEN SizeTOfNegInf(conv)
    ELSE CeilLogRatio(LeafNodes(n, s), s + 1)

\* size_t(pow(slots_per_node + 1, tree_height))
Expp(n, s, conv) ==
    IF TreeHeight(n, s, conv) >= SizeBits
    THEN SizeTOfPosInf(conv)
    ELSE Pow(s + 1, TreeHeight(n, s, conv))

\* size_t((expp - leaf_nodes) / slots_per_node), the division in double
LastInternalNode(n, s, conv) ==
    IF Expp(n, s, conv) >= LeafNodes(n, s)
    THEN (Expp(n, s, conv) - LeafNodes(n, s)) \div s
    ELSE SizeTOfNegInf(conv)

NInternalNodes(n, s, conv) ==
    SizeT(SizeT(Expp(n, s, conv) - 1) \div s - LastInternalNode(n, s, conv))

HalfMarker(n, s, conv) == SizeT(Expp(n, s, conv) - 1) \div s

\* std::vector<K>::max_size()
MaxVectorSize(sz) == (SizeMod \div 2 - 1) \div sz

\* a read of L[i]; out of range it yields 0, a value that is no key
At(L, i) == IF i < Len(L) THEN L[i + 1] ELSE 0

RECURSIVE RightmostLeaf(_, _, _)
RightmostLeaf(c, m, s) ==
    IF c < m THEN RightmostLeaf(c * (s + 1) + s + 1, m, s) ELSE c

SlotValueFirstKey(i, L, s, m, h, last) ==
    LET n == Len(L)
        c == RightmostLeaf((i \div s) * (s + 1) + 1 + (i % s), m, s)
        d == (c - h) * s
    IN  IF d < 0 THEN At(L, SizeT(d + n))
        ELSE IF SizeT(d + s - 1) < SizeT(n - last * s) THEN At(L, d)
        ELSE At(L, SizeT(n - last * s - 1))

\* the body of the fill loop: the value assigned to tree[i]
SlotValue(i, L, s, m, h, last) ==
    LET n == Len(L)
        c == RightmostLeaf((i \div s) * (s + 1) + 1 + (i % s), m, s)
        d == (c - h) * s
    IN  IF d < 0 THEN At(L, SizeT(d + n + s - 1))
        ELSE IF SizeT(d + s - 1) < SizeT(n - last * s) THEN At(L, d + s - 1)
        ELSE At(L, SizeT(n - last * s - 1))

NoFind ==
    /\ key' = 0
    /\ child' = 0
    /\ diff' = 0
    /\ lo' = 0
    /\ hi' = 0
    /\ result' = -1
    /\ reads' = {}

ConstructFrom(inputs) ==
    /\ pc = "start"
    /\ \E cfg \in Configs, d \in inputs, conv \in FpConventions :
        LET s == cfg[1] \div cfg[2]
            n == Len(d)
            m == NInternalNodes(n, s, conv)
            last == LastInternalNode(n, s, conv)
            h == HalfMarker(n, s, conv)
        IN  /\ data' = d
            /\ IF ~IsSorted(d)
               THEN /\ pc' = "failed"
                    /\ error' = "invalid_argument"
                    /\ UNCHANGED <<node_size, key_size, slots_per_node,
                                   leaves, tree, tree_height, half_marker,
                                   n_internal_nodes>>
               ELSE IF SizeT(m * s) > MaxVectorSize(cfg[2])
               THEN /\ pc' = "failed"
                    /\ error' = "length_error"
                    /\ UNCHANGED <<node_size, key_size, slots_per_node,
                                   leaves, tree, tree_height, half_marker,
                                   n_internal_nodes>>
               ELSE /\ pc' = "built"
                    /\ error' = ""
                    /\ node_size' = cfg[1]
                    /\ key_size' = cfg[2]
                    /\ slots_per_node' = s
                    /\ leaves' = d
                    /\ tree_height' = TreeHeight(n, s, conv)
                    /\ n_internal_nodes' = m
                    /\ half_marker' = h
                    /\ tree' = [i \in 1 .. SizeT(m * s) |->
                                   SlotValue(i - 1, d, s, m, h, last)]
    /\ UNCHANGED <<key, child, diff, lo, hi, result, reads>>

Construct == ConstructFrom(SmallData)

\* construction at the length where the height's rounding shows
ConstructLarge == ConstructFrom(LargeInputs)

-----------------------------------------------------------------------------
(* Observers *)

Size == Len(leaves)
End == Len(leaves)
Height == tree_height
SizeInBytes == Len(tree) * key_size

LeafAt(i) == leaves[i + 1]
SlotAt(i) == tree[i + 1]

-----------------------------------------------------------------------------
(* find *)

FindBegin ==
    /\ pc = "built"
    /\ \E k \in SearchKeys :
        /\ key' = k
        /\ IF n_internal_nodes = 0
           THEN /\ pc' = "scan"
                /\ lo' = 0
                /\ hi' = Len(leaves)
           ELSE /\ pc' = "descend"
                /\ lo' = 0
                /\ hi' = 0
    /\ child' = 0
    /\ UNCHANGED <<diff, result, reads>>
    /\ UNCHANGED treeVars

RECURSIVE ScanFrom(_, _, _)
ScanFrom(base, j, k) ==
    IF j < slots_per_node /\ SlotAt(base + j) < k
    THEN ScanFrom(base, j + 1, k)
    ELSE j

\* the linear scan of node c: the lo it ends with
ScanLo(c, k) == ScanFrom(c * slots_per_node, 0, k)

\* the range [first, last) handed to std::lower_bound
BinFirst(c) == c * slots_per_node
BinLast(c) == Min(Len(tree), c * slots_per_node + slots_per_node + 1)

\* std::lower_bound(first, last, k): the partition point when the range is
\* partitioned by (element < k), any position of the range otherwise
LowerBound(first, last, k) ==
    LET part == {p \in first .. last :
                    /\ \A q \in first .. (p - 1) : SlotAt(q) < k
                    /\ \A q \in p .. (last - 1) : ~(SlotAt(q) < k)}
    IN  IF part # {} THEN part ELSE first .. last

\* the binary search of node c: the distances std::distance(lo, pos) it can
\* end with
BinaryLos(c, k) ==
    {(IF p = BinLast(c) THEN p - 1 ELSE p) - BinFirst(c) :
        p \in LowerBound(BinFirst(c), BinLast(c), k)}

NodeLos(c, k) ==
    IF node_size > ScanLimit THEN BinaryLos(c, k) ELSE {ScanLo(c, k)}

\* one iteration of the descent loop
Descend ==
    /\ pc = "descend"
    /\ child < n_internal_nodes
    /\ \E l \in NodeLos(child, key) :
        child' = child * (slots_per_node + 1) + 1 + l
    /\ UNCHANGED <<pc, key, diff, lo, hi, result, reads>>
    /\ UNCHANGED treeVars

\* diff of leaf child c after the wrap-around step
WrappedDiff(c) ==
    LET d == (c - half_marker) * slots_per_node
    IN  IF d < 0 THEN d + Len(leaves) ELSE d

SliceLo(c) == Min(Len(leaves), SizeT(WrappedDiff(c)))
SliceHi(c) == Min(Len(leaves), SizeT(WrappedDiff(c) + slots_per_node))

\* the loop has ended: map the child to a slice of leaves
Resolve ==
    /\ pc = "descend"
    /\ child >= n_internal_nodes
    /\ diff' = WrappedDiff(child)
    /\ \/ /\ WrappedDiff(child) >= 0
          /\ pc' = "scan"
          /\ lo' = SliceLo(child)
          /\ hi' = SliceHi(child)
       \/ /\ WrappedDiff(child) < 0      \* the assertion fails
          /\ pc' = "aborted"
          /\ UNCHANGED <<lo, hi>>
       \/ /\ WrappedDiff(child) < 0      \* NDEBUG
          /\ pc' = "scan"
          /\ lo' = SliceLo(child)
          /\ hi' = SliceHi(child)
    /\ UNCHANGED <<key, child, result, reads>>
    /\ UNCHANGED treeVars

RECURSIVE ScanStop(_, _, _)
ScanStop(i, h, k) ==
    IF i # h /\ LeafAt(i) < k THEN ScanStop(i + 1, h, k) ELSE i

\* find_in_leaves(lo, hi, key)
FindInLeaves ==
    /\ pc = "scan"
    /\ IF lo <= hi
       THEN LET p == ScanStop(lo, hi, key)
            IN  /\ reads' = reads \cup (lo .. p)
                /\ IF p < Len(leaves)
                   THEN /\ pc' = "returned"
                        /\ result' = IF key = LeafAt(p) THEN p ELSE End
                   ELSE \* *lo reads leaves[size()]
                        \/ /\ pc' = "returned"
                           /\ result' = End
                        \/ /\ pc' = "fault"
                           /\ UNCHANGED result
       ELSE \* lo = size() is beyond hi: the loop runs off the end of leaves
            /\ reads' = reads \cup {lo}
            /\ \/ /\ pc' = "returned"
                  /\ result' \in {End, lo + 1}
               \/ /\ pc' = "fault"
                  /\ UNCHANGED result
    /\ UNCHANGED <<key, child, diff, lo, hi>>
    /\ UNCHANGED treeVars

\* the caller takes the result; the tree is unchanged and can be searched again
Return ==
    /\ pc = "returned"
    /\ pc' = "built"
    /\ NoFind
    /\ UNCHANGED treeVars

-----------------------------------------------------------------------------

Init ==
    /\ pc = "start"
    /\ data = <<>>
    /\ node_size = 0
    /\ key_size = 0
    /\ slots_per_node = 0
    /\ leaves = <<>>
    /\ tree = <<>>
    /\ tree_height = 0
    /\ half_marker = 0
    /\ n_internal_nodes = 0
    /\ error = ""
    /\ key = 0
    /\ child = 0
    /\ diff = 0
    /\ lo = 0
    /\ hi = 0
    /\ result = -1
    /\ reads = {}

Next ==
    \/ Construct
    \/ FindBegin
    \/ Descend
    \/ Resolve
    \/ FindInLeaves
    \/ Return

Spec == Init /\ [][Next]_vars

NextRounding ==
    \/ ConstructLarge
    \/ FindBegin
    \/ Descend
    \/ Resolve
    \/ FindInLeaves
    \/ Return

SpecRounding == Init /\ [][NextRounding]_vars

-----------------------------------------------------------------------------
(* Vocabulary of the properties *)

N == Len(leaves)

TreeExists == pc \notin {"start", "failed"}

\* a find call has ended: it returned, the assertion aborted it, or a read
\* outside leaves faulted
FindOver == pc \in {"returned", "aborted", "fault"}

ScanMode == node_size <= ScanLimit

Occurrences(k) == {p \in 0 .. (N - 1) : LeafAt(p) = k}

NonDecreasing(d) == \A i \in 2 .. Len(d) : d[i - 1] <= d[i]

RECURSIVE LeafChildren(_)
\* the leaf children (indices >= n_internal_nodes) below child c
LeafChildren(c) ==
    IF c >= n_internal_nodes
    THEN {c}
    ELSE UNION {LeafChildren(c * (slots_per_node + 1) + 1 + j) :
                j \in 0 .. slots_per_node}

\* the positions of leaves that find scans for leaf child c
FindSlice(c) == SliceLo(c) .. (SliceHi(c) - 1)

\* the end of the first half of leaves, n - last_internal_node * slots_per_node
FirstHalfEnd == N - LastInternalNode(N, slots_per_node, "indefinite") * slots_per_node

\* the positions of leaf child c, a child of the deepest level (c >=
\* half_marker) ending where the first half of leaves ends
ClippedSlice(c) ==
    LET d == (c - half_marker) * slots_per_node
    IN  IF c < half_marker
        THEN (IF d + N < 0 THEN 0 ELSE d + N) .. (Min(N, d + N + slots_per_node) - 1)
        ELSE Min(FirstHalfEnd, d) .. (Min(FirstHalfEnd, d + slots_per_node) - 1)

KeysUnder(c, Slice(_)) ==
    {LeafAt(p) : p \in UNION {Slice(x) : x \in LeafChildren(c)}}

\* the child left of slot i; the child right of it is the next one
LeftChild(i) ==
    (i \div slots_per_node) * (slots_per_node + 1) + 1 + (i % slots_per_node)

-----------------------------------------------------------------------------
(* Properties *)

\* C1: in linear-scan mode, find(k) for a key k that occurs in a non-empty
\* leaf sequence returns a position p in [0, N) with leaves[p] = k.
C1_FindReturnsPresentKey ==
    (FindOver /\ ScanMode /\ N > 0 /\ Occurrences(key) # {})
        => (pc = "returned" /\ result \in Occurrences(key))

\* C2: in linear-scan mode, find(k) for a key k that does not occur in a
\* non-empty leaf sequence returns end().
C2_FindReturnsEndForAbsentKey ==
    (FindOver /\ ScanMode /\ N > 0 /\ Occurrences(key) = {})
        => (pc = "returned" /\ result = End)

\* C3: construction ends in invalid_argument exactly when the argument is not
\* non-decreasing, and then no tree exists: no member holds anything and no
\* operation can be called.
C3_UnsortedInputRejected ==
    (pc # "start")
        => /\ (error = "invalid_argument") <=> ~NonDecreasing(data)
           /\ ~NonDecreasing(data)
                => /\ pc = "failed"
                   /\ leaves = <<>>
                   /\ tree = <<>>
                   /\ slots_per_node = 0
                   /\ ~ENABLED Next

C3_Witness ==
    /\ pc = "failed"
    /\ error = "invalid_argument"
    /\ data = <<2, 1, 1>>

\* C4: for every tree built from data, size() = |data|, size_in_bytes() =
\* n_internal_nodes * slots_per_node * sizeof(K), and when N <= slots_per_node
\* then size_in_bytes() = 0 and height() = 0; with one slot per node and five
\* one-byte keys size_in_bytes() = 4.
C4_SizeInvariants ==
    TreeExists
        => /\ Size = Len(data)
           /\ SizeInBytes = n_internal_nodes * slots_per_node * key_size
           /\ Size <= slots_per_node => (SizeInBytes = 0 /\ Height = 0)
           /\ (slots_per_node = 1 /\ Size = 5 /\ key_size = 1) => SizeInBytes = 4

C4_Witness ==
    /\ pc = "built"
    /\ slots_per_node = 1
    /\ key_size = 1
    /\ Size = 5
    /\ SizeInBytes = 4

\* C5: construction from the empty sequence succeeds with tree_height = 0,
\* n_internal_nodes = 0 and half_marker = 0, and find returns end() for every
\* key.
C5_EmptyInput ==
    (pc # "start" /\ data = <<>>)
        => /\ error = ""
           /\ tree_height = 0
           /\ n_internal_nodes = 0
           /\ half_marker = 0
           /\ FindOver => (pc = "returned" /\ result = End)

\* C6: at every internal node find visits, the binary search ends with the
\* same lo as the linear scan.
C6_BinarySearchEqualsScan ==
    (pc = "descend" /\ child < n_internal_nodes)
        => BinaryLos(child, key) = {ScanLo(child, key)}

\* C7, as claimed: for every slot tree[i] of a tree with N > slots_per_node,
\* every key in a slice of leaves that find resolves below the slot's left
\* child is <= tree[i], and every key below its right child is > tree[i].
C7_DirectoryStrict ==
    (pc = "built" /\ N > slots_per_node)
        => \A i \in 0 .. (Len(tree) - 1) :
            /\ \A k \in KeysUnder(LeftChild(i), FindSlice) : k <= SlotAt(i)
            /\ \A k \in KeysUnder(LeftChild(i) + 1, FindSlice) : k > SlotAt(i)

\* C7, amended: with the slices of the deepest level ending where the first
\* half of leaves ends, every key below the slot's left child is <= tree[i]
\* and every key below its right child is >= tree[i].
C7_DirectoryClipped ==
    (pc = "built" /\ N > slots_per_node)
        => \A i \in 0 .. (Len(tree) - 1) :
            /\ \A k \in KeysUnder(LeftChild(i), ClippedSlice) : k <= SlotAt(i)
            /\ \A k \in KeysUnder(LeftChild(i) + 1, ClippedSlice) : k >= SlotAt(i)

C7_Witness ==
    /\ pc = "built"
    /\ N > slots_per_node
    /\ n_internal_nodes >= 2
    /\ slots_per_node >= 2
    /\ N % slots_per_node # 0
    /\ FirstHalfEnd < N
    /\ \E p \in 1 .. (N - 1) : LeafAt(p - 1) = LeafAt(p)
    /\ \E i \in 0 .. (Len(tree) - 1) :
        /\ KeysUnder(LeftChild(i), ClippedSlice) # {}
        /\ KeysUnder(LeftChild(i) + 1, ClippedSlice) # {}

\* C8: when find's descent loop has ended on a tree with internal nodes,
\* child >= n_internal_nodes and, after the wrap-around step, the asserted
\* diff >= 0 holds.
C8_DescentEndsWithAssertedDiff ==
    (pc \in {"scan", "aborted"} /\ n_internal_nodes > 0)
        => (child >= n_internal_nodes /\ diff >= 0)

\* C9: every index of leaves that find and find_in_leaves dereference lies in
\* [0, N).
C9_ReadsWithinLeaves == reads \subseteq 0 .. (N - 1)

\* C10: in linear-scan mode, find(k) for a key k that occurs more than once
\* returns the lowest index p with leaves[p] = k.
C10_FindReturnsFirstOccurrence ==
    (FindOver /\ ScanMode /\ Cardinality(Occurrences(key)) > 1)
        => /\ pc = "returned"
           /\ result \in Occurrences(key)
           /\ \A p \in Occurrences(key) : result <= p

====
